---- MODULE Spec2Model ----
(***************************************************************************)
(* Model of the traffic ETL of etl_cajica_routes.py: densification of a    *)
(* road network into subsegments, batched matrix requests, reconciliation  *)
(* of the returned cells with the subsegments, and the output collection.  *)
(*                                                                         *)
(* Numbers.  Python floats are modelled by exact rationals                 *)
(* [num |-> Int, den |-> Nat \ {0}]; NaN is the value NaN below.  A        *)
(* LineString is a sequence of points <<x, y>> whose consecutive points    *)
(* differ in one coordinate only, so that the planar length shapely        *)
(* computes is an integer.  A point on a subsegment is stored multiplied   *)
(* by the subsegment's `scale` (the number n of cuts of its parent line),  *)
(* which keeps the interpolated cut points i/n * L exact.                  *)
(***************************************************************************)
EXTENDS Integers, Sequences, FiniteSets, TLC

VARIABLES
    api_key,       \* os.getenv("GOOGLE_MAPS_API_KEY") is set
    gj,            \* the input feature collection (its "features" list)
    subsegment_m,  \* target subsegment length
    batch_size,    \* subsegments per matrix request
    all_pairs,     \* (p0, p1, subgeom, props) of every subsegment, in order
    i,             \* start of the next batch in all_pairs
    req,           \* outcome of the batch's request_matrix call: none/raised/ok
    cells,         \* the cells that call returned
    features_out,  \* output features built so far
    out,           \* the output file: NoFile until lines 194-196 write it
    pc             \* position of run_once: start, request, advance, done,
                   \* exit (sys.exit) or raised (left by an exception)

vars == <<api_key, gj, subsegment_m, batch_size, all_pairs, i, req, cells,
          features_out, out, pc>>

----------------------------------------------------------------------------
(* Bounds of the model *)

\* largest coordinate of a vertex of a line given to the densifier alone
GridMax == 3
\* most vertices of a line given to the densifier alone
MaxVerts == 3
\* largest target subsegment length (in units of DefaultSubsegmentM for a
\* whole run)
MaxTarget == 2
\* most features of an input network of a whole run
MaxFeatures == 2
\* longest 2-point road of an input network of a whole run, in units of
\* DefaultSubsegmentM
MaxRoadLen == 2
\* most subsegments of an input network of a whole run
MaxSubs == 3
\* largest batch size
MaxBatch == 2
\* most cells in one matrix response
MaxCells == 2

\* the default of subsegment_m, in the units of the coordinates
DefaultSubsegmentM == 300

----------------------------------------------------------------------------
(* Arithmetic helpers *)

Abs(x) == IF x < 0 THEN -x ELSE x

Max(a, b) == IF a >= b THEN a ELSE b

Min(a, b) == IF a <= b THEN a ELSE b

\* math.ceil(a / b) for a >= 0, b > 0
CeilDiv(a, b) == (a + b - 1) \div b

Rat(n, d) == [num |-> n, den |-> d]

RatEq(a, b) == a.num * b.den = b.num * a.den

\* round(x, 1) * 10 for the rational x = n / d, d > 0: Python rounds to the
\* nearest tenth, a tie to the even one
RoundTenths(n, d) ==
    LET m == 10 * n
        q == m \div d
        r == m % d
    IN  IF 2 * r < d THEN q
        ELSE IF 2 * r > d THEN q + 1
        ELSE IF q % 2 = 0 THEN q ELSE q + 1

----------------------------------------------------------------------------
(* Geometry: shapely's LineString, length and substring *)

\* length of the leg p -> q (one of the two differences is 0)
LegLen(p, q) == Abs(q[1] - p[1]) + Abs(q[2] - p[2])

RECURSIVE CumLen(_, _)
\* arc length from the first vertex of `coords` to its j-th vertex
CumLen(coords, j) ==
    IF j <= 1 THEN 0
    ELSE CumLen(coords, j - 1) + LegLen(coords[j - 1], coords[j])

\* LineString.length (0 for an empty line)
LineLength(coords) == CumLen(coords, Len(coords))

Sign(x) == IF x > 0 THEN 1 ELSE IF x < 0 THEN -1 ELSE 0

ScalePoint(p, n) == <<p[1] * n, p[2] * n>>

RECURSIVE InterpFrom(_, _, _, _)
\* line.interpolate(d / n), multiplied by n: walks the legs from vertex j
InterpFrom(coords, j, d, n) ==
    IF j >= Len(coords) THEN ScalePoint(coords[Len(coords)], n)
    ELSE LET p == coords[j]
             q == coords[j + 1]
             c == CumLen(coords, j)
         IN  IF d <= (c + LegLen(p, q)) * n
             THEN <<p[1] * n + Sign(q[1] - p[1]) * (d - c * n),
                    p[2] * n + Sign(q[2] - p[2]) * (d - c * n)>>
             ELSE InterpFrom(coords, j + 1, d, n)

RECURSIVE InnerVertices(_, _, _, _, _)
\* the vertices of the line strictly between the arc distances a/n and b/n,
\* from vertex j on (the last vertex is never an inner one)
InnerVertices(coords, j, a, b, n) ==
    IF j >= Len(coords) THEN <<>>
    ELSE LET c == CumLen(coords, j) * n
         IN  IF c >= b THEN <<>>
             ELSE (IF a < c THEN <<ScalePoint(coords[j], n)>> ELSE <<>>)
                  \o InnerVertices(coords, j + 1, a, b, n)

\* shapely.ops.substring(line, a/n, b/n): a Point (length 0) when a >= b,
\* else the start point, the inner vertices and the end point
Substring(coords, a, b, n) ==
    [scale  |-> n,
     coords |-> IF a >= b
                THEN <<InterpFrom(coords, 1, a, n)>>
                ELSE <<InterpFrom(coords, 1, a, n)>>
                     \o InnerVertices(coords, 1, a, b, n)
                     \o <<InterpFrom(coords, 1, b, n)>>]

\* sub.length of a subsegment, as a rational
SubLength(sub) == Rat(LineLength(sub.coords), sub.scale)

\* the cut count with the quotient rounded down instead of up
NumCutsFloor(L, target_len_m) == Max(1, L \div target_len_m)

\* n = max(1, int(math.ceil(L / target_len_m)))
NumCuts(L, target_len_m) == Max(1, CeilDiv(L, target_len_m))

\* the start with an integer division, (i // n) * L, multiplied by n
CutStartFloor(k, n, L) == (k \div n) * n * L

\* start = (i / n) * L, multiplied by n
CutStart(k, n, L) == k * L

\* end = min(((i + 1) / n) * L, L), multiplied by n
CutEnd(k, n, L) == Min((k + 1) * L, n * L)

RECURSIVE DensifyLoop(_, _, _, _)
\* the loop of densify_to_subsegments from iteration k on
DensifyLoop(coords, L, n, k) ==
    IF k >= n THEN <<>>
    ELSE LET sub == Substring(coords, CutStart(k, n, L), CutEnd(k, n, L), n)
         IN  (IF SubLength(sub).num > 0
              THEN <<[p0 |-> sub.coords[1],
                      p1 |-> sub.coords[Len(sub.coords)],
                      subgeom |-> sub]>>
              ELSE <<>>)
             \o DensifyLoop(coords, L, n, k + 1)

densify_to_subsegments(coords, target_len_m) ==
    LET L == LineLength(coords)
    IN  IF L = 0 THEN <<>>
        ELSE DensifyLoop(coords, L, NumCuts(L, target_len_m), 0)

----------------------------------------------------------------------------
(* Values: JSON values of cells and properties, and Python floats *)

\* None / null
Null == [t |-> "null", num |-> 0, den |-> 1, s |-> <<>>]

\* the number n / d
JNum(n, d) == [t |-> "num", num |-> n, den |-> d, s |-> <<>>]

\* a string, as the sequence of its characters
JStr(str) == [t |-> "str", num |-> 0, den |-> 1, s |-> str]

\* float('nan')
NaN == [t |-> "nan", num |-> 0, den |-> 1, s |-> <<>>]

\* the outcome of a call that raised an exception
Raised == [t |-> "raise", num |-> 0, den |-> 1, s |-> <<>>]

\* cell.get(key, default) on a JSON object
Get(cell, key, default) == IF key \in DOMAIN cell THEN cell[key] ELSE default

Digits == {"0", "1", "2", "3", "4", "5", "6", "7", "8", "9"}

DigitVal(c) ==
    CASE c = "0" -> 0 [] c = "1" -> 1 [] c = "2" -> 2 [] c = "3" -> 3
      [] c = "4" -> 4 [] c = "5" -> 5 [] c = "6" -> 6 [] c = "7" -> 7
      [] c = "8" -> 8 [] c = "9" -> 9

RECURSIVE DigitsVal(_)
\* the number a non-empty sequence of digits denotes
DigitsVal(str) ==
    IF Len(str) = 0 THEN 0
    ELSE 10 * DigitsVal(SubSeq(str, 1, Len(str) - 1)) + DigitVal(str[Len(str)])

\* float(str) for the strings "<digits>" and "-<digits>"; any other string
\* of the model makes float() raise ValueError
ParseFloat(str) ==
    LET neg  == Len(str) > 0 /\ str[1] = "-"
        body == IF neg THEN SubSeq(str, 2, Len(str)) ELSE str
    IN  IF Len(body) > 0 /\ \A j \in 1..Len(body) : body[j] \in Digits
        THEN JNum(IF neg THEN -DigitsVal(body) ELSE DigitsVal(body), 1)
        ELSE Raised

\* `not duration_iso`: None, "" and 0 are falsy
Falsy(v) ==
    \/ v.t = "null"
    \/ v.t = "str" /\ Len(v.s) = 0
    \/ v.t = "num" /\ v.num = 0

\* estimate_speed_kmh(distance_m, duration_iso), distance_m an integer.
\* A duration that is a non-zero number has no endswith: the AttributeError
\* is raised outside the try block and leaves the function.
estimate_speed_kmh(distance_m, duration_iso) ==
    IF Falsy(duration_iso) THEN NaN
    ELSE IF duration_iso.t /= "str" THEN Raised
    ELSE IF duration_iso.s[Len(duration_iso.s)] /= "s" THEN NaN
    ELSE LET sec == ParseFloat(SubSeq(duration_iso.s, 1, Len(duration_iso.s) - 1))
         IN  IF sec.t = "raise" THEN NaN
             ELSE IF sec.num <= 0 THEN NaN
             ELSE [t |-> "num", num |-> distance_m * 36, den |-> sec.num * 10,
                   s |-> <<>>]

Gray == "#888888"

Green == "#2E7D32"

Amber == "#F9A825"

Orange == "#EF6C00"

Red == "#C62828"

\* grade_color(speed_kmh), speed_kmh NaN or a rational with den > 0
grade_color(speed_kmh) ==
    IF speed_kmh.t = "nan" THEN Gray
    ELSE IF speed_kmh.num >= 45 * speed_kmh.den THEN Green
    ELSE IF speed_kmh.num >= 30 * speed_kmh.den THEN Amber
    ELSE IF speed_kmh.num >= 15 * speed_kmh.den THEN Orange
    ELSE Red

----------------------------------------------------------------------------
(* run_once: reading and densifying the network *)

\* LineString(coordinates) raises for a single coordinate tuple (a line has
\* no or at least two points); the call is outside any try block
LineStringRaises(coordinates) == Len(coordinates) = 1

\* a feature the loop of run_once turns into subsegments
IsLine(feat) == feat.geometry.type = "LineString"

\* the (p0, p1, subgeom, props) tuples of one feature
FeaturePairs(feat, target_len_m) ==
    LET subs == densify_to_subsegments(feat.geometry.coordinates, target_len_m)
    IN  [j \in 1..Len(subs) |->
            [p0 |-> subs[j].p0, p1 |-> subs[j].p1,
             subgeom |-> subs[j].subgeom, props |-> feat.properties]]

RECURSIVE PairsFrom(_, _, _)
\* all_pairs as the loop over gj["features"] builds it, from feature j on
PairsFrom(features, j, target_len_m) ==
    IF j > Len(features) THEN <<>>
    ELSE (IF IsLine(features[j])
          THEN FeaturePairs(features[j], target_len_m)
          ELSE <<>>)
         \o PairsFrom(features, j + 1, target_len_m)

\* some LineString feature makes the loop raise
ReadRaises(features) ==
    \E j \in 1..Len(features) :
        IsLine(features[j]) /\ LineStringRaises(features[j].geometry.coordinates)

----------------------------------------------------------------------------
(* run_once: one batch *)

\* batch = all_pairs[i:i+batch_size], as the positions it holds
BatchLen(pairs, start, size) == Min(size, Len(pairs) - start)

\* the feature of the except branch: no speed, the geometric length
FailureFeature(pair) ==
    [type |-> "Feature",
     geometry |-> pair.subgeom,
     properties |->
        [speed_kmh |-> Null,
         distance_m |-> JNum(SubLength(pair.subgeom).num, SubLength(pair.subgeom).den),
         updated_at |-> "utcnow",
         color |-> grade_color(NaN)] @@ pair.props]

\* the tuple (oi, di, dist_m, dur, spd) of one cell
SpeedVal(cell) ==
    LET dist_m == Get(cell, "distanceMeters", 0)
        dur    == Get(cell, "duration", Null)
    IN  [oi |-> Get(cell, "originIndex", -1),
         di |-> Get(cell, "destinationIndex", -1),
         dist_m |-> dist_m,
         dur |-> dur,
         spd |-> IF Get(cell, "status", "") /= "OK" THEN NaN
                 ELSE estimate_speed_kmh(dist_m, dur)]

\* a search that compares the origin index only
MatchKeyOrigin(sv) == <<sv.oi, sv.oi>>

\* the index compared with k in the search for the cell of subsegment k
MatchKey(sv) == <<sv.oi, sv.di>>

\* next((sv for sv in speed_vals if sv[0] == k and sv[1] == k), None):
\* the position of the first such tuple, 0 for None
Match(speed_vals, k) ==
    LET hits == {j \in 1..Len(speed_vals) : MatchKey(speed_vals[j]) = <<k, k>>}
    IN  IF hits = {} THEN 0 ELSE CHOOSE j \in hits : \A h \in hits : j <= h

\* the feature appended for the subsegment at local index k
ReconciledFeature(pair, speed_vals, k) ==
    LET m      == Match(speed_vals, k)
        len    == SubLength(pair.subgeom)
        spd    == IF m = 0 THEN NaN ELSE speed_vals[m].spd
        dist_m == IF m = 0 THEN len
                  ELSE IF speed_vals[m].dist_m <= 0 THEN len
                  ELSE Rat(speed_vals[m].dist_m, 1)
        dur    == IF m = 0 THEN Null ELSE speed_vals[m].dur
    IN  [type |-> "Feature",
         geometry |-> pair.subgeom,
         properties |->
            [speed_kmh |-> IF spd.t = "nan" THEN Null
                           ELSE JNum(RoundTenths(spd.num, spd.den), 10),
             distance_m |-> JNum(RoundTenths(dist_m.num, dist_m.den), 10),
             duration |-> dur,
             updated_at |-> "utcnow",
             color |-> grade_color(spd)] @@ pair.props]

\* the position in all_pairs taken for the local index
LocalIndexGlobal(g, start) == g

\* the local index enumerate(batch) gives the subsegment at position g
LocalIndex(g, start) == g - start

\* a failed request that leaves its batch out of the output
FailedBatchFeaturesNone(pairs, start, size) == <<>>

\* the features one batch appends, for a request that raised
FailedBatchFeatures(pairs, start, size) ==
    [k \in 1..BatchLen(pairs, start, size) |-> FailureFeature(pairs[start + k])]

\* the features one batch appends, for a request that returned resp
BatchFeatures(pairs, start, size, resp) ==
    LET speed_vals == [j \in 1..Len(resp) |-> SpeedVal(resp[j])]
    IN  [k \in 1..BatchLen(pairs, start, size) |->
            ReconciledFeature(pairs[start + k], speed_vals,
                              LocalIndex(start + k - 1, start))]

\* building speed_vals raises: estimate_speed_kmh raised for some cell
CellsRaise(resp) ==
    \E j \in 1..Len(resp) : SpeedVal(resp[j]).spd.t = "raise"

----------------------------------------------------------------------------
(* Inputs *)

\* a JSON object without keys
EmptyObject == [x \in {} |-> 0]

\* an optional key of a JSON object: <<>> for no key, <<v>> for the value v
Field(key, opt) == IF opt = <<>> THEN EmptyObject ELSE (key :> opt[1])

StatusValues == {"OK", "NOT_FOUND"}

DistanceValues == {<<>>, <<462>>}

DurationValues ==
    {<<>>,
     <<JNum(37, 1)>>,
     <<JStr(<<"x", "s">>)>>,
     <<JStr(<<"0", "s">>)>>,
     <<JStr(<<"3", "7", "s">>)>>}

\* the cells the service may return for a batch of nb origins
CellValues(nb) ==
    {[originIndex |-> oi, destinationIndex |-> di, status |-> st]
        @@ Field("distanceMeters", d) @@ Field("duration", du) :
        oi \in 0..(nb - 1), di \in 0..(nb - 1), st \in StatusValues,
        d \in DistanceValues, du \in DurationValues}

\* the parsed responses request_matrix may return for a batch of nb origins
Responses(nb) == UNION {[1..m -> CellValues(nb)] : m \in 0..MaxCells}

\* 2-point roads from the origin along the x axis, the empty line and the
\* line of a single point
RoadLines ==
    {<<>>, << <<0, 0>> >>}
    \cup {<< <<0, 0>>, <<t * DefaultSubsegmentM, 0>> >> : t \in 0..MaxRoadLen}

RoadGeometries ==
    {[type |-> "MultiPoint", coordinates |-> << <<0, 0>> >>]}
    \cup {[type |-> "LineString", coordinates |-> c] : c \in RoadLines}

\* feature collections: every feature carries its own property bag
Networks ==
    UNION {{[j \in 1..m |-> [geometry |-> g[j], properties |-> [id |-> j]]] :
                g \in [1..m -> RoadGeometries]} : m \in 0..MaxFeatures}

Grid == (0..GridMax) \X (0..GridMax)

AxisAligned(c) ==
    \A j \in 1..(Len(c) - 1) : c[j][1] = c[j + 1][1] \/ c[j][2] = c[j + 1][2]

\* the lines given to the densifier alone
DensifyLines ==
    {<<>>} \cup UNION {{c \in [1..m -> Grid] : AxisAligned(c)} : m \in 2..MaxVerts}

NoFile == [written |-> FALSE, features |-> <<>>]

File(features) == [written |-> TRUE, features |-> features]

----------------------------------------------------------------------------
(* run_once *)

\* run_once is called with a positive batch size and target length, on a
\* network of at most MaxSubs subsegments
Init ==
    /\ api_key \in BOOLEAN
    /\ subsegment_m \in {l * DefaultSubsegmentM : l \in 1..MaxTarget}
    /\ batch_size \in 1..MaxBatch
    /\ gj \in Networks
    /\ ReadRaises(gj) \/ Len(PairsFrom(gj, 1, subsegment_m)) <= MaxSubs
    /\ all_pairs = <<>>
    /\ i = 0
    /\ req = "none"
    /\ cells = <<>>
    /\ features_out = <<>>
    /\ out = NoFile
    /\ pc = "start"

\* lines 106-109: no credential, sys.exit(2)
MissingKey ==
    /\ pc = "start"
    /\ ~api_key
    /\ pc' = "exit"
    /\ UNCHANGED <<api_key, gj, subsegment_m, batch_size, all_pairs, i, req,
                   cells, features_out, out>>

\* lines 111-127: LineString(...) raises while the network is read
ReadFails ==
    /\ pc = "start"
    /\ api_key
    /\ ReadRaises(gj)
    /\ pc' = "raised"
    /\ UNCHANGED <<api_key, gj, subsegment_m, batch_size, all_pairs, i, req,
                   cells, features_out, out>>

\* lines 111-132: the network is read and densified; an empty all_pairs
\* goes straight to the output
ReadNetwork ==
    /\ pc = "start"
    /\ api_key
    /\ ~ReadRaises(gj)
    /\ all_pairs' = PairsFrom(gj, 1, subsegment_m)
    /\ i' = 0
    /\ features_out' = <<>>
    /\ IF Len(all_pairs') > 0
       THEN pc' = "request" /\ out' = out
       ELSE pc' = "done" /\ out' = File(<<>>)
    /\ UNCHANGED <<api_key, gj, subsegment_m, batch_size, req, cells>>

\* lines 133-152: request_matrix raises, every subsegment of the batch gets
\* a feature without speed
RequestRaises ==
    /\ pc = "request"
    /\ req' = "raised"
    /\ cells' = <<>>
    /\ features_out' = features_out \o FailedBatchFeatures(all_pairs, i, batch_size)
    /\ pc' = "advance"
    /\ UNCHANGED <<api_key, gj, subsegment_m, batch_size, all_pairs, i, out>>

\* lines 133-137, 156-168: request_matrix returns cells and building
\* speed_vals raises
CellsFail ==
    /\ pc = "request"
    /\ \E resp \in Responses(BatchLen(all_pairs, i, batch_size)) :
        /\ CellsRaise(resp)
        /\ cells' = resp
    /\ req' = "ok"
    /\ pc' = "raised"
    /\ UNCHANGED <<api_key, gj, subsegment_m, batch_size, all_pairs, i,
                   features_out, out>>

\* lines 133-137, 156-191: request_matrix returns cells, the batch is
\* reconciled
RequestReturns ==
    /\ pc = "request"
    /\ \E resp \in Responses(BatchLen(all_pairs, i, batch_size)) :
        /\ ~CellsRaise(resp)
        /\ cells' = resp
        /\ features_out' =
              features_out \o BatchFeatures(all_pairs, i, batch_size, resp)
    /\ req' = "ok"
    /\ pc' = "advance"
    /\ UNCHANGED <<api_key, gj, subsegment_m, batch_size, all_pairs, i, out>>

\* lines 153 and 192, the loop test of line 132 and lines 194-198: i moves
\* to the next batch, or the output is written.  cells is dead from here
\* to the next request.
NextBatch ==
    /\ pc = "advance"
    /\ i' = i + batch_size
    /\ req' = "none"
    /\ cells' = <<>>
    /\ IF i' < Len(all_pairs)
       THEN pc' = "request" /\ out' = out
       ELSE pc' = "done" /\ out' = File(features_out)
    /\ UNCHANGED <<api_key, gj, subsegment_m, batch_size, all_pairs,
                   features_out>>

Next ==
    \/ MissingKey
    \/ ReadFails
    \/ ReadNetwork
    \/ RequestRaises
    \/ CellsFail
    \/ RequestReturns
    \/ NextBatch

Spec == Init /\ [][Next]_vars

----------------------------------------------------------------------------
(* densify_to_subsegments alone *)

InitDensify ==
    /\ api_key = TRUE
    /\ subsegment_m \in 1..MaxTarget
    /\ batch_size = 1
    /\ \E c \in DensifyLines :
          gj = <<[geometry |-> [type |-> "LineString", coordinates |-> c],
                  properties |-> [id |-> 1]]>>
    /\ all_pairs = <<>>
    /\ i = 0
    /\ req = "none"
    /\ cells = <<>>
    /\ features_out = <<>>
    /\ out = NoFile
    /\ pc = "densify"

\* lines 124-127 for one feature
DensifyCall ==
    /\ pc = "densify"
    /\ all_pairs' = FeaturePairs(gj[1], subsegment_m)
    /\ pc' = "densified"
    /\ UNCHANGED <<api_key, gj, subsegment_m, batch_size, i, req, cells,
                   features_out, out>>

SpecDensify == InitDensify /\ [][DensifyCall]_vars

----------------------------------------------------------------------------
(* Vocabulary of the properties *)

\* number of subsegments of the batch being processed
CurrentBatchLen == BatchLen(all_pairs, i, batch_size)

\* local indices of the batch being processed
CurrentBatch == 0..(CurrentBatchLen - 1)

\* the output record of the subsegment at local index k of the batch that
\* was just processed (pc = "advance": i is still the start of that batch)
RecordOf(k) == features_out[i + k + 1].properties

\* the subsegment at local index k of that batch
PairOf(k) == all_pairs[i + k + 1]

\* positions in the response of the cells with originIndex = destinationIndex = k
CellsFor(k) ==
    {c \in 1..Len(cells) :
        cells[c].originIndex = k /\ cells[c].destinationIndex = k}

\* the only cell of the response for index k
TheCell(k) == cells[CHOOSE c \in CellsFor(k) : TRUE]

\* a duration of the form "<seconds>s" with a positive whole number of seconds
PositiveSeconds(dur) ==
    /\ dur.t = "str"
    /\ Len(dur.s) >= 2
    /\ dur.s[Len(dur.s)] = "s"
    /\ \A j \in 1..(Len(dur.s) - 1) : dur.s[j] \in Digits
    /\ \E j \in 1..(Len(dur.s) - 1) : dur.s[j] /= "0"

Seconds(dur) == DigitsVal(SubSeq(dur.s, 1, Len(dur.s) - 1))

\* index k has exactly one cell, successful and with a positive duration
HasGoodCell(k) ==
    /\ Cardinality(CellsFor(k)) = 1
    /\ TheCell(k).status = "OK"
    /\ "duration" \in DOMAIN TheCell(k)
    /\ PositiveSeconds(TheCell(k).duration)

\* index k has no successful cell: none at all, or only cells with another status
HasNoSuccess(k) == \A c \in CellsFor(k) : cells[c].status /= "OK"

\* distance / seconds * 3.6 to one decimal, as a JSON number, for the
\* distance n / d meters
SpeedOf(n, d, seconds) == JNum(RoundTenths(n * 36, d * seconds * 10), 10)

\* the speed computed from the cell of index k alone
OwnCellSpeed(k) ==
    SpeedOf(Get(TheCell(k), "distanceMeters", 0), 1, Seconds(TheCell(k).duration))

\* the color of the ladder for a published speed (null, or tenths of km/h)
LadderColor(speed) ==
    IF speed = Null THEN "#888888"
    ELSE IF speed.num >= 450 THEN "#2E7D32"
    ELSE IF speed.num >= 300 THEN "#F9A825"
    ELSE IF speed.num >= 150 THEN "#EF6C00"
    ELSE "#C62828"

\* the record carries this subsegment's geometry and its parent's properties
BelongsTo(feature, pair) ==
    /\ feature.geometry = pair.subgeom
    /\ feature.properties.id = pair.props.id

----------------------------------------------------------------------------
(* C1: when run_once finishes, the output holds exactly one record per     *)
(* subsegment of all_pairs, whatever the batches' outcomes were; while it  *)
(* runs, every processed batch has added one record per subsegment, a      *)
(* failed request null-speed records.                                      *)
OneRecordPerSubsegment ==
    /\ pc = "request" => Len(features_out) = i
    /\ pc = "advance" => Len(features_out) = i + CurrentBatchLen
    /\ (pc = "advance" /\ req = "raised") =>
          \A k \in CurrentBatch : RecordOf(k).speed_kmh = Null
    /\ pc = "done" =>
          /\ out.written
          /\ Len(out.features) = Len(all_pairs)
          /\ \A g \in 1..Len(all_pairs) :
                Cardinality({h \in 1..Len(out.features) :
                                BelongsTo(out.features[h], all_pairs[g])}) = 1

\* a finished run of three subsegments, one without and one with a speed
OneRecordWitness ==
    /\ pc = "done"
    /\ Len(all_pairs) = 3
    /\ Len(out.features) = 3
    /\ \E g, h \in 1..3 :
          /\ out.features[g].properties.speed_kmh = Null
          /\ "duration" \notin DOMAIN out.features[g].properties
          /\ out.features[h].properties.speed_kmh /= Null

(* C2: in a batch whose request succeeded, when index k has no successful  *)
(* cell and every other index has its one successful cell with a positive  *)
(* duration, only the record of k has a null speed and every other record  *)
(* has the speed of its own cell.                                          *)
PartialFailureIsolated ==
    (pc = "advance" /\ req = "ok") =>
        \A k \in CurrentBatch :
            (/\ HasNoSuccess(k)
             /\ \A j \in CurrentBatch \ {k} : HasGoodCell(j))
            => /\ RecordOf(k).speed_kmh = Null
               /\ \A j \in CurrentBatch \ {k} :
                     /\ RecordOf(j).speed_kmh /= Null
                     /\ RecordOf(j).speed_kmh = OwnCellSpeed(j)

\* a batch of two, one index with a failed cell and one with a good cell
PartialFailureWitness ==
    /\ pc = "advance"
    /\ req = "ok"
    /\ CurrentBatchLen = 2
    /\ \E k, j \in CurrentBatch :
          /\ k /= j
          /\ CellsFor(k) /= {}
          /\ HasNoSuccess(k)
          /\ HasGoodCell(j)
          /\ RecordOf(k).speed_kmh = Null
          /\ RecordOf(j).speed_kmh /= Null

(* C3 as stated: the record of a subsegment whose cell is missing or not   *)
(* successful has a null speed, a null duration and the subsegment's own   *)
(* geometric length as distance, whatever the cell carries.                *)
FailedCellLikeFailedBatch ==
    (pc = "advance" /\ req = "ok") =>
        \A k \in CurrentBatch :
            HasNoSuccess(k) =>
                /\ RecordOf(k).speed_kmh = Null
                /\ RecordOf(k).duration = Null
                /\ RatEq(RecordOf(k).distance_m, SubLength(PairOf(k).subgeom))

(* C4 as stated: every record of a batch whose request failed has a null   *)
(* speed, a duration key holding null, the geometric length as distance    *)
(* and the neutral color.                                                  *)
FailedBatchRecordComplete ==
    (pc = "advance" /\ req = "raised") =>
        \A k \in CurrentBatch :
            /\ RecordOf(k).speed_kmh = Null
            /\ RatEq(RecordOf(k).distance_m, SubLength(PairOf(k).subgeom))
            /\ RecordOf(k).color = "#888888"
            /\ {"speed_kmh", "distance_m", "duration", "updated_at", "color"}
                  \subseteq DOMAIN RecordOf(k)
            /\ RecordOf(k).duration = Null

(* C5 as stated: with the credential present nothing aborts the run: it    *)
(* never ends in an uncaught exception.                                    *)
RunNeverAborts == api_key => pc /= "raised"

(* C6: the record at output position g belongs to the g-th subsegment of   *)
(* the input traversal (features in input order, subsegments in chain      *)
(* order), and it was reconciled against local index g mod B of batch      *)
(* floor(g / B): a good cell at that index gives it that cell's speed, no  *)
(* cell at that index gives it no speed.                                   *)
OutputOrderIsInputOrder ==
    /\ \A g \in 1..Len(features_out) : BelongsTo(features_out[g], all_pairs[g])
    /\ \A g \in 1..(Len(all_pairs) - 1) :
          \/ all_pairs[g].props.id < all_pairs[g + 1].props.id
          \/ /\ all_pairs[g].props.id = all_pairs[g + 1].props.id
             /\ all_pairs[g].p1 = all_pairs[g + 1].p0
    /\ (pc = "advance" /\ req = "ok") =>
          \A g \in i..(Len(features_out) - 1) :
              LET k == g % batch_size
              IN  /\ i = batch_size * (g \div batch_size)
                  /\ HasGoodCell(k) =>
                        features_out[g + 1].properties.speed_kmh = OwnCellSpeed(k)
                  /\ CellsFor(k) = {} =>
                        features_out[g + 1].properties.speed_kmh = Null

\* the second batch of a network of two roads, the first cut in two: the
\* third subsegment gets the speed of the cell of local index 0
OutputOrderWitness ==
    /\ pc = "advance"
    /\ req = "ok"
    /\ batch_size = 2
    /\ i = 2
    /\ Len(features_out) = 3
    /\ all_pairs[1].props.id = 1
    /\ all_pairs[2].props.id = 1
    /\ all_pairs[3].props.id = 2
    /\ HasGoodCell(0)
    /\ features_out[3].properties.speed_kmh = OwnCellSpeed(0)

(* C8 as stated: the speed of a record that comes from a successful cell   *)
(* with a positive duration is the distance the record publishes (the      *)
(* cell's, or the geometric length when the cell has none) divided by the  *)
(* seconds, times 3.6, to one decimal; a successful cell whose duration is *)
(* missing, malformed or not positive gives a null speed.                  *)
SpeedFromPublishedDistance ==
    (pc = "advance" /\ req = "ok") =>
        \A k \in CurrentBatch :
            /\ HasGoodCell(k) =>
                  /\ RecordOf(k).distance_m =
                        (IF Get(TheCell(k), "distanceMeters", 0) = 0
                         THEN JNum(RoundTenths(SubLength(PairOf(k).subgeom).num,
                                               SubLength(PairOf(k).subgeom).den), 10)
                         ELSE JNum(10 * TheCell(k).distanceMeters, 10))
                  /\ RecordOf(k).speed_kmh =
                        SpeedOf(RecordOf(k).distance_m.num,
                                RecordOf(k).distance_m.den,
                                Seconds(TheCell(k).duration))
            /\ (/\ Cardinality(CellsFor(k)) = 1
                /\ TheCell(k).status = "OK"
                /\ ~PositiveSeconds(Get(TheCell(k), "duration", Null)))
               => RecordOf(k).speed_kmh = Null

(* C9 as stated: the color of every output record is the ladder's          *)
(* classification of the speed the record publishes.                       *)
ColorOfPublishedSpeed ==
    \A g \in 1..Len(features_out) :
        features_out[g].properties.color =
            LadderColor(features_out[g].properties.speed_kmh)

----------------------------------------------------------------------------
(* Properties of densify_to_subsegments alone (SpecDensify) *)

\* the line given to the densifier
InputLine == gj[1].geometry.coordinates

RECURSIVE SumLengths(_, _)
\* sum of the numerators of the lengths of the first j subsegments
SumLengths(pairs, j) ==
    IF j = 0 THEN 0
    ELSE SumLengths(pairs, j - 1) + SubLength(pairs[j].subgeom).num

ExactCoverage ==
    (pc = "densified" /\ LineLength(InputLine) > 0) =>
        LET n == Len(all_pairs)
        IN  /\ n >= 1
            /\ \A j \in 1..n :
                  /\ all_pairs[j].subgeom.scale = all_pairs[1].subgeom.scale
                  /\ all_pairs[j].p0 = all_pairs[j].subgeom.coords[1]
                  /\ all_pairs[j].p1 =
                        all_pairs[j].subgeom.coords[Len(all_pairs[j].subgeom.coords)]
            /\ all_pairs[1].p0 = ScalePoint(InputLine[1], all_pairs[1].subgeom.scale)
            /\ \A j \in 1..(n - 1) : all_pairs[j + 1].p0 = all_pairs[j].p1
            /\ all_pairs[n].p1 =
                  ScalePoint(InputLine[Len(InputLine)], all_pairs[1].subgeom.scale)
            /\ SumLengths(all_pairs, n) =
                  all_pairs[1].subgeom.scale * LineLength(InputLine)

\* a line with a bend cut into several subsegments, one of them holding the
\* bend as an inner vertex
ExactCoverageWitness ==
    /\ pc = "densified"
    /\ Len(InputLine) = 3
    /\ Len(all_pairs) >= 2
    /\ \E j \in 1..Len(all_pairs) : Len(all_pairs[j].subgeom.coords) = 3

====
